---- MODULE Spec2Model ----
(***************************************************************************)
(* Route optimizer: schedule evaluator (time-window simulation), genetic   *)
(* search and simulated annealing over permutations of location indices.   *)
(*                                                                         *)
(* Conventions.  Times are whole minutes and distances whole kilometres    *)
(* (the source uses floats; every quantity of the fixture below is exact   *)
(* in both).  A Python list is a sequence; list position p (0-based) is    *)
(* sequence position p + 1, while the location indices stored in a route   *)
(* keep the source's 0-based values.  An Optional value is a set with at   *)
(* most one element.  What a call that can raise yields is an outcome: a   *)
(* record of the exception's name ("" when it returned) and the value.     *)
(***************************************************************************)
EXTENDS Integers, Sequences, FiniteSets, TLC

VARIABLES
    \* Location constructed on its own
    lc_open, lc_close, lc_ret,
    \* the route lists of a search as objects: contents now and at creation
    heap, origin, hp_last,
    \* ConstraintChecker.check_time_window called on its own
    tw_checker, tw_idx, tw_arrival, tw_ret,
    \* ConstraintChecker.evaluate_route called on its own
    ev_route, ev_solution, ev_previous,
    \* the genetic operators and the annealing move called on their own
    op_call, op_ret,
    \* RouteOptimizer and the search it runs
    locations, pc, result, exception,
    ga, population, generation, ga_best_fitness, ga_best_solution, ga_min_seen,
    ga_initial_best,
    sa, current_route, current_solution, best_route, best_solution,
    temperature, inner, iteration, sa_min_seen, evaluations

lc_vars == <<lc_open, lc_close, lc_ret>>
hp_vars == <<heap, origin, hp_last>>
tw_vars == <<tw_checker, tw_idx, tw_arrival, tw_ret>>
ev_vars == <<ev_route, ev_solution, ev_previous>>
op_vars == <<op_call, op_ret>>
ga_vars == <<ga, population, generation, ga_best_fitness, ga_best_solution, ga_min_seen,
             ga_initial_best>>
sa_vars == <<sa, current_route, current_solution, best_route, best_solution,
             temperature, inner, iteration, sa_min_seen, evaluations>>
run_vars == <<locations, pc, result, exception>>
vars == <<lc_vars, hp_vars, tw_vars, ev_vars, op_vars, run_vars, ga_vars, sa_vars>>

-----------------------------------------------------------------------------
(* Bounds of the model *)

\* longest route handed to evaluate_route on its own
MaxRouteLen == 3
\* longest permutation handed to crossover / mutate / get_neighbor on their own
MaxPermLen == 3
\* largest population_size
MaxPop == 2
\* largest generations
MaxGen == 2
\* largest iterations_per_temp
MaxIter == 2
\* largest initial_temperature
MaxTemp == 3

-----------------------------------------------------------------------------
(* Values *)

\* float('inf'): above every finite value the model reaches
Inf == 1000000000
\* minutes in a day, 24 * 60
DayMinutes == 1440
\* penalty per violation, 1000.0
Penalty == 1000

None == {}
Some(v) == {v}
Get(o) == CHOOSE v \in o : TRUE

Returned(v) == [raised |-> "", value |-> v]
Raised(name) == [raised |-> name, value |-> <<>>]
IsRaised(outcome) == outcome.raised # ""

Time(h, m) == [hour |-> h, minute |-> m]

Range(s) == {s[i] : i \in 1..Len(s)}

Min(S) == CHOOSE v \in S : \A w \in S : v <= w

\* the permutations of 0..n-1, as sequences
Permutations0(n) == {p \in [1..n -> 0..(n - 1)] : \A i, j \in 1..n : p[i] = p[j] => i = j}

\* p is a list holding each index of 0..n-1 exactly once
IsPermutation(p, n) ==
    /\ Len(p) = n
    /\ \A v \in 0..(n - 1) : Cardinality({i \in 1..Len(p) : p[i] = v}) = 1

-----------------------------------------------------------------------------
(* models.py *)

Location(x, open_time, close_time, stay_duration) ==
    [x |-> x, open_time |-> open_time, close_time |-> close_time,
     stay_duration |-> stay_duration]

\* datetime.time orders by (hour, minute)
TimeGeq(a, b) == a.hour > b.hour \/ (a.hour = b.hour /\ a.minute >= b.minute)

\* the truth value of an Optional[time] where midnight counts as false, as
\* datetime.time did before Python 3.5
truthy_unless_midnight(t) == t # None /\ Get(t) # Time(0, 0)

\* the truth value of an Optional[time]: None is false and every time object
\* is true, midnight included (the annotation list[int] of RouteSolution
\* makes the module need Python 3.9, where time defines no truth value)
truthy(t) == t # None

\* Location.__post_init__ raises ValueError
post_init_raises(loc) ==
    /\ truthy(loc.open_time) /\ truthy(loc.close_time)
    /\ TimeGeq(Get(loc.open_time), Get(loc.close_time))

\* Location(...): the dataclass constructor, which ends in __post_init__
new_Location(x, open_time, close_time, stay_duration) ==
    LET loc == Location(x, open_time, close_time, stay_duration)
    IN  IF post_init_raises(loc) THEN Raised("ValueError") ELSE Returned(loc)

RouteSolution(route, total_distance, total_time, fitness, violations, arrival_times) ==
    [route |-> route, total_distance |-> total_distance, total_time |-> total_time,
     fitness |-> fitness, violations |-> violations, arrival_times |-> arrival_times]

-----------------------------------------------------------------------------
(* distance_matrix.py *)

\* The distance formula is a pure function of two coordinate pairs; the
\* locations of the model lie on one line, x kilometres along it.
distance_of(loc1, loc2) == IF loc1.x >= loc2.x THEN loc1.x - loc2.x ELSE loc2.x - loc1.x

\* DistanceMatrix._compute_matrix: every ordered pair, 0 on the diagonal
compute_matrix(locs) ==
    [pair \in (0..(Len(locs) - 1)) \X (0..(Len(locs) - 1)) |->
        IF pair[1] = pair[2] THEN 0
        ELSE distance_of(locs[pair[1] + 1], locs[pair[2] + 1])]

get_distance(matrix, from_idx, to_idx) ==
    IF <<from_idx, to_idx>> \in DOMAIN matrix THEN matrix[<<from_idx, to_idx>>] ELSE Inf

get_travel_time(matrix, from_idx, to_idx, avg_speed) ==
    LET distance == get_distance(matrix, from_idx, to_idx)
    IN  IF distance = Inf THEN Inf ELSE (distance * 60) \div avg_speed

-----------------------------------------------------------------------------
(* constraints.py *)

time_to_minutes(t) == t.hour * 60 + t.minute

\* ConstraintChecker.__init__
ConstraintChecker(locs, avg_speed, start_time) ==
    [locations |-> locs, distance_matrix |-> compute_matrix(locs),
     avg_speed |-> avg_speed, start_time_minutes |-> time_to_minutes(start_time)]

\* the window test of the normal branch with the upper bound exclusive
within_window_exclusive(open_minutes, close_minutes, actual_time_normalized) ==
    open_minutes <= actual_time_normalized /\ actual_time_normalized < close_minutes

\* open_minutes <= actual_time_normalized <= close_minutes
within_window(open_minutes, close_minutes, actual_time_normalized) ==
    open_minutes <= actual_time_normalized /\ actual_time_normalized <= close_minutes

\* the wait of a late arrival without the wrap to the next day
wait_past_close_same_day(open_minutes, actual_time_normalized) ==
    actual_time_normalized - open_minutes

\* (24 * 60 - actual_time_normalized) + open_minutes
wait_past_close(open_minutes, actual_time_normalized) ==
    (DayMinutes - actual_time_normalized) + open_minutes

\* ConstraintChecker.check_time_window: <<satisfied, adjusted arrival>>
check_time_window(self, location_idx, arrival_time) ==
    LET location == self.locations[location_idx + 1]
    IN  IF location.open_time = None \/ location.close_time = None
        THEN <<TRUE, arrival_time>>
        ELSE
        LET actual_time_minutes == self.start_time_minutes + arrival_time
            open_minutes == time_to_minutes(Get(location.open_time))
            close_0 == time_to_minutes(Get(location.close_time))
            close_minutes == IF close_0 < open_minutes THEN close_0 + DayMinutes ELSE close_0
            actual_time_normalized == actual_time_minutes % DayMinutes
        IN  IF open_minutes <= close_minutes
            THEN IF within_window(open_minutes, close_minutes, actual_time_normalized)
                 THEN <<TRUE, arrival_time>>
                 ELSE IF actual_time_normalized < open_minutes
                      THEN <<FALSE, arrival_time + (open_minutes - actual_time_normalized)>>
                      ELSE <<FALSE, arrival_time
                                    + wait_past_close(open_minutes, actual_time_normalized)>>
            ELSE IF actual_time_normalized >= open_minutes
                    \/ actual_time_normalized <= close_minutes
                 THEN <<TRUE, arrival_time>>
                 ELSE <<FALSE, arrival_time + (open_minutes - actual_time_normalized)>>

\* the fitness of a non-empty route without the penalty term
fitness_of_distance_only(total_distance, violations) == total_distance

\* penalty = violations * 1000.0; fitness = total_distance + penalty
fitness_of(total_distance, violations) == total_distance + violations * Penalty

\* the arrival recorded after the wait for the window
arrival_after_wait(current_time, actual_arrival) == actual_arrival

\* arrival_times.append(current_time), before check_time_window is called
arrival_recorded(current_time, actual_arrival) == current_time

\* the body of the for loop of evaluate_route from position i (1-based) on,
\* with the values its four local variables have reached
RECURSIVE evaluate_loop(_, _, _, _, _, _, _)
evaluate_loop(self, route, i, total_distance, current_time, arrival_times, violations) ==
    IF i > Len(route)
    THEN [total_distance |-> total_distance, current_time |-> current_time,
          arrival_times |-> arrival_times, violations |-> violations]
    ELSE
    LET location_idx == route[i]
        location == self.locations[location_idx + 1]
        checked == check_time_window(self, location_idx, current_time)
        has_next == i < Len(route)
        distance == IF has_next
                    THEN get_distance(self.distance_matrix, location_idx, route[i + 1])
                    ELSE 0
        travel_time == IF has_next
                       THEN get_travel_time(self.distance_matrix, location_idx,
                                            route[i + 1], self.avg_speed)
                       ELSE 0
    IN  evaluate_loop(self, route, i + 1,
            total_distance + distance,
            checked[2] + location.stay_duration + travel_time,
            Append(arrival_times, arrival_recorded(current_time, checked[2])),
            IF ~checked[1] THEN violations + 1 ELSE violations)

\* ConstraintChecker.evaluate_route
evaluate_route(self, route) ==
    IF route = <<>>
    THEN RouteSolution(<<>>, 0, 0, Inf, 0, <<>>)
    ELSE
    LET acc == evaluate_loop(self, route, 1, 0, 0, <<>>, 0)
    IN  RouteSolution(route, acc.total_distance, acc.current_time,
                      fitness_of(acc.total_distance, acc.violations),
                      acc.violations, acc.arrival_times)

-----------------------------------------------------------------------------
(* The fixture: three stops on a line, departure 09:00 at 30 km/h *)

AllLocations ==
    << Location(0, Some(Time(6, 0)), Some(Time(22, 0)), 60),
       Location(10, Some(Time(10, 0)), Some(Time(11, 0)), 60),
       Location(1200, None, None, 15) >>

AvgSpeed == 30
StartTime == Time(9, 0)

\* RouteOptimizer.__init__ for the first n locations of the fixture
Checker(locs) == ConstraintChecker(locs, AvgSpeed, StartTime)

-----------------------------------------------------------------------------
(* The parts of the state a specification does not use stay as they are *)

lc_unused == lc_open = None /\ lc_close = None /\ lc_ret = None
hp_unused == heap = <<>> /\ origin = <<>> /\ hp_last = None
tw_unused == tw_checker = None /\ tw_idx = 0 /\ tw_arrival = 0 /\ tw_ret = None
ev_unused == ev_route = <<>> /\ ev_solution = None /\ ev_previous = None
op_unused == op_call = None /\ op_ret = None
run_unused == locations = <<>> /\ pc = "unused" /\ result = None /\ exception = ""
ga_unused ==
    /\ ga = None /\ population = <<>> /\ generation = 0
    /\ ga_best_fitness = Inf /\ ga_best_solution = None /\ ga_min_seen = Inf
    /\ ga_initial_best = Inf
sa_unused ==
    /\ sa = None /\ current_route = <<>> /\ current_solution = None
    /\ best_route = <<>> /\ best_solution = None
    /\ temperature = <<0, 1>> /\ inner = 0 /\ iteration = 0 /\ sa_min_seen = Inf
    /\ evaluations = 0

-----------------------------------------------------------------------------
(* Location constructed on its own: any pair of optional times *)

LocationTimes == {Time(h, m) : h \in {0, 9, 10, 23}, m \in {0, 30, 59}}

InitLoc ==
    /\ lc_open \in {None} \cup {Some(t) : t \in LocationTimes}
    /\ lc_close \in {None} \cup {Some(t) : t \in LocationTimes}
    /\ lc_ret = None
    /\ hp_unused /\ tw_unused /\ ev_unused /\ op_unused /\ run_unused
    /\ ga_unused /\ sa_unused

NewLocation ==
    /\ lc_ret = None
    /\ lc_ret' = Some(new_Location(0, lc_open, lc_close, 0))
    /\ UNCHANGED <<lc_open, lc_close, hp_vars, tw_vars, ev_vars, op_vars, run_vars,
                   ga_vars, sa_vars>>

NextLoc == NewLocation

SpecLoc == InitLoc /\ [][NextLoc]_vars

\* C11: constructing a Location raises exactly when both times are present
\* and open is not strictly before close (equal times and an open time of
\* 00:00 included); otherwise it returns the location with the times it was
\* given, so a constructed location with a window has open before close.
C11_LocationConstruction ==
    lc_ret # None =>
        LET both == lc_open # None /\ lc_close # None
            ordered == time_to_minutes(Get(lc_open)) < time_to_minutes(Get(lc_close))
        IN  /\ IsRaised(Get(lc_ret)) <=> (both /\ ~ordered)
            /\ IsRaised(Get(lc_ret)) => Get(lc_ret).raised = "ValueError"
            /\ ~IsRaised(Get(lc_ret)) =>
                  /\ Get(lc_ret).value.open_time = lc_open
                  /\ Get(lc_ret).value.close_time = lc_close
                  /\ both => ordered

\* C11 witness: a construction with open 00:00 and close 00:00, equal times
\* at midnight, which raised.
C11_Witness ==
    /\ lc_ret # None
    /\ lc_open = Some(Time(0, 0)) /\ lc_close = Some(Time(0, 0))
    /\ IsRaised(Get(lc_ret))

-----------------------------------------------------------------------------
(* check_time_window on its own: one location, any window, any arrival *)

\* days of simulated clock the arrival offsets cover
MaxDays == 2

TimesOfDay == {Time(0, 0), Time(6, 0), Time(9, 0), Time(17, 0), Time(22, 0), Time(23, 30)}
OptionalTimes == {None} \cup {Some(t) : t \in TimesOfDay}
StartTimes == {Time(0, 0), Time(9, 0), Time(23, 30)}

\* offsets from departure on a half-hour grid, each with its two neighbours;
\* a caller may pass an offset before departure
ArrivalTimes == {30 * k + d : k \in (-2)..(48 * MaxDays), d \in {-1, 0, 1}}

\* A Location is a plain mutable record: its window fields can be assigned
\* after construction, so check_time_window can meet any pair of times.
InitTW ==
    /\ \E o \in OptionalTimes, c \in OptionalTimes, st \in StartTimes :
          tw_checker = Some(ConstraintChecker(<<Location(0, o, c, 0)>>, AvgSpeed, st))
    /\ tw_idx = 0
    /\ tw_arrival \in ArrivalTimes
    /\ tw_ret = None
    /\ ev_unused /\ op_unused /\ run_unused /\ ga_unused /\ sa_unused
    /\ lc_unused /\ hp_unused

CheckTimeWindow ==
    /\ tw_ret = None
    /\ tw_ret' = Some(check_time_window(Get(tw_checker), tw_idx, tw_arrival))
    /\ UNCHANGED <<tw_checker, tw_idx, tw_arrival, ev_vars, op_vars, run_vars,
                   ga_vars, sa_vars, lc_vars, hp_vars>>

NextTW == CheckTimeWindow

SpecTW == InitTW /\ [][NextTW]_vars

\* what the claims about the check read off a finished call
tw_location == Get(tw_checker).locations[tw_idx + 1]
tw_has_window == tw_location.open_time # None /\ tw_location.close_time # None
tw_open == time_to_minutes(Get(tw_location.open_time))
tw_close == time_to_minutes(Get(tw_location.close_time))
tw_clock == (Get(tw_checker).start_time_minutes + tw_arrival) % DayMinutes
tw_satisfied == Get(tw_ret)[1]
tw_adjusted == Get(tw_ret)[2]

\* C2: for a window that spans midnight (close earlier than open) the check
\* reports satisfied exactly when the clock of the arrival, within its day,
\* is at or after open or at or before close.
C2_SpanningWindow ==
    (tw_ret # None /\ tw_has_window /\ tw_close < tw_open)
        => (tw_satisfied <=> (tw_clock >= tw_open \/ tw_clock <= tw_close))

\* C3: for a window with open before close the check reports satisfied
\* exactly when open <= clock of the arrival within its day <= close, both
\* bounds included, however many midnights the offset crosses; a location
\* with open or close absent is always satisfied.
C3_NonSpanningWindow ==
    tw_ret # None =>
        /\ ~tw_has_window => tw_satisfied
        /\ (tw_has_window /\ tw_open < tw_close)
              => (tw_satisfied <=> (tw_open <= tw_clock /\ tw_clock <= tw_close))

\* C3 witness: a finished call whose offset crossed a midnight and landed
\* exactly on the close bound of a non-spanning window, reported satisfied.
C3_Witness ==
    /\ tw_ret # None /\ tw_has_window /\ tw_open < tw_close
    /\ Get(tw_checker).start_time_minutes + tw_arrival >= DayMinutes
    /\ tw_clock = tw_close
    /\ tw_satisfied

\* C4: a satisfied check returns the arrival unchanged; an unsatisfied one
\* returns arrival + w with 0 < w < 1440 and the clock at arrival + w equal
\* to the open time exactly.
C4_AdjustedArrival ==
    tw_ret # None =>
        /\ tw_satisfied => tw_adjusted = tw_arrival
        /\ ~tw_satisfied =>
              LET w == tw_adjusted - tw_arrival
              IN  /\ 0 < w /\ w < DayMinutes
                  /\ (Get(tw_checker).start_time_minutes + tw_arrival + w) % DayMinutes
                        = tw_open

\* C4 witness: an arrival past close of a non-spanning window, so the wait
\* runs over midnight to the next day's open.
C4_Witness ==
    /\ tw_ret # None /\ tw_has_window /\ tw_open < tw_close
    /\ tw_clock > tw_close
    /\ ~tw_satisfied
    /\ tw_adjusted > tw_arrival

-----------------------------------------------------------------------------
(* evaluate_route on its own: the evaluator of the fixture, any route *)

\* every list of at most MaxRouteLen location indices, repeats and
\* omissions allowed
Routes == UNION {[1..k -> 0..(Len(AllLocations) - 1)] : k \in 0..MaxRouteLen}

InitEval ==
    /\ ev_route = <<>> /\ ev_solution = None /\ ev_previous = None
    /\ tw_unused /\ op_unused /\ run_unused /\ ga_unused /\ sa_unused
    /\ lc_unused /\ hp_unused

\* one call of evaluate_route; the solution of the call before it is kept
EvaluateRoute ==
    \E route \in Routes :
        /\ ev_route' = route
        /\ ev_solution' = Some(evaluate_route(Checker(AllLocations), route))
        /\ ev_previous' = ev_solution
        /\ UNCHANGED <<lc_vars, hp_vars, tw_vars, op_vars, run_vars, ga_vars, sa_vars>>

NextEval == EvaluateRoute

SpecEval == InitEval /\ [][NextEval]_vars

\* C1: every solution evaluate_route returns, for a route of any length,
\* has fitness = total_distance + 1000 * violations.
C1_FitnessInvariant ==
    ev_solution # None =>
        Get(ev_solution).fitness
            = Get(ev_solution).total_distance + 1000 * Get(ev_solution).violations

\* C1 as amended: the equation holds for every non-empty route; the empty
\* route has fitness +infinity with distance 0 and no violations.
C1_FitnessInvariantNonEmpty ==
    ev_solution # None =>
        /\ ev_route # <<>> =>
              Get(ev_solution).fitness
                  = Get(ev_solution).total_distance + 1000 * Get(ev_solution).violations
        /\ ev_route = <<>> =>
              /\ Get(ev_solution).fitness = Inf
              /\ Get(ev_solution).total_distance = 0
              /\ Get(ev_solution).violations = 0

\* C1 witness: an evaluated route that travelled and missed two windows.
C1_Witness ==
    /\ ev_solution # None
    /\ Len(ev_route) >= 2
    /\ Get(ev_solution).total_distance > 0
    /\ Get(ev_solution).violations >= 2
    /\ Get(ev_solution).fitness > 2000

\* C12: for every route, arrival_times has one entry per position, the first
\* 0; each entry is the clock before any wait; violations is the number of
\* positions whose time-window check on that entry is not satisfied; after a
\* failed check the clock stands at the window's open time, and the next
\* entry is the adjusted arrival plus the stay plus the travel time.
C12_ArrivalsAndViolations ==
    ev_solution # None =>
        LET sol == Get(ev_solution)
            self == Checker(AllLocations)
            n == Len(ev_route)
            check(i) == check_time_window(self, ev_route[i], sol.arrival_times[i])
            stay(i) == self.locations[ev_route[i] + 1].stay_duration
        IN  /\ Len(sol.arrival_times) = n
            /\ n >= 1 => sol.arrival_times[1] = 0
            /\ sol.violations = Cardinality({i \in 1..n : ~check(i)[1]})
            /\ \A i \in 1..n :
                  ~check(i)[1] =>
                      (self.start_time_minutes + check(i)[2]) % DayMinutes
                          = time_to_minutes(Get(self.locations[ev_route[i] + 1].open_time))
            /\ \A i \in 1..(n - 1) :
                  sol.arrival_times[i + 1]
                      = check(i)[2] + stay(i)
                          + get_travel_time(self.distance_matrix, ev_route[i],
                                            ev_route[i + 1], self.avg_speed)
            /\ n >= 1 => sol.total_time = check(n)[2] + stay(n)

\* C12 witness: a route that missed a window at one position, waited, and
\* met the window of the position after it; one violation in all.
C12_Witness ==
    /\ ev_solution # None
    /\ Get(ev_solution).violations = 1
    /\ \E i \in 1..(Len(ev_route) - 1) :
          LET self == Checker(AllLocations)
              first == check_time_window(self, ev_route[i],
                                         Get(ev_solution).arrival_times[i])
              second == check_time_window(self, ev_route[i + 1],
                                          Get(ev_solution).arrival_times[i + 1])
          IN  /\ ~first[1]
              /\ first[2] > Get(ev_solution).arrival_times[i]
              /\ second[1]
              /\ self.locations[ev_route[i + 1] + 1].open_time # None

\* C10: of two routes evaluated by the same evaluator, the one with strictly
\* fewer violations has the strictly lower fitness, whatever the distances.
C10_ViolationsDominate ==
    (ev_previous # None /\ ev_solution # None
        /\ Get(ev_previous).violations < Get(ev_solution).violations)
        => Get(ev_previous).fitness < Get(ev_solution).fitness

\* C10 as amended: of two non-empty routes, the one with strictly fewer
\* violations has the strictly lower fitness exactly when its distance
\* exceeds the other's by less than 1000 per violation of difference; so it
\* always has when its distance is not the greater.
C10_ViolationsDominateWithinPenalty ==
    (ev_previous # None /\ ev_solution # None
        /\ Get(ev_previous).route # <<>> /\ Get(ev_solution).route # <<>>
        /\ Get(ev_previous).violations < Get(ev_solution).violations)
        => LET a == Get(ev_previous)
               b == Get(ev_solution)
           IN  /\ (a.fitness < b.fitness)
                     <=> (a.total_distance
                            < b.total_distance + 1000 * (b.violations - a.violations))
               /\ a.total_distance <= b.total_distance => a.fitness < b.fitness

\* C10 witness: the route with fewer violations is the longer one and still
\* has the lower fitness.
C10_Witness ==
    /\ ev_previous # None /\ ev_solution # None
    /\ Get(ev_previous).route # <<>> /\ Get(ev_solution).route # <<>>
    /\ Get(ev_previous).violations < Get(ev_solution).violations
    /\ Get(ev_previous).total_distance > Get(ev_solution).total_distance
    /\ Get(ev_previous).fitness < Get(ev_solution).fitness

-----------------------------------------------------------------------------
(* The random module: every value a draw can take *)

\* random.random() is in [0, 1); rates and draws are in hundredths
RandomDraws == {0, 50, 99}
\* mutation_rate and crossover_rate, in [0, 1]
Rates == {0, 50, 100}
\* the rates of a search: at one half a draw can fall on either side of the
\* rate, so a search at this rate can do whatever a search at any rate does
SearchRates == {50}

\* random.randint(a, b): ValueError on an empty range
randint(a, b) == IF a > b THEN {Raised("ValueError")} ELSE {Returned(v) : v \in a..b}

\* random.sample(range(n), 2): two distinct positions, ValueError when n < 2
sample2(n) ==
    IF n < 2 THEN {Raised("ValueError")}
    ELSE {Returned(q) : q \in {q \in (0..(n - 1)) \X (0..(n - 1)) : q[1] # q[2]}}

-----------------------------------------------------------------------------
(* genetic_algorithm.py: the operators *)

\* while child[pos] != -1: pos += 1   (pos is a 1-based position here)
RECURSIVE skip_filled(_, _)
skip_filled(child, pos) == IF child[pos] # -1 THEN skip_filled(child, pos + 1) ELSE pos

\* for gene in parent: if gene not in child: ...; child[pos] = gene
RECURSIVE fill_child(_, _, _, _)
fill_child(child, parent, g, pos) ==
    IF g > Len(parent) THEN child
    ELSE IF parent[g] \in Range(child) THEN fill_child(child, parent, g + 1, pos)
    ELSE LET free == skip_filled(child, pos)
         IN  fill_child([child EXCEPT ![free] = parent[g]], parent, g + 1, free)

\* child = [-1] * len(keep); child[point1:point2+1] = keep[point1:point2+1]
segment_child(keep, point1, point2) ==
    [p \in 1..Len(keep) |-> IF point1 + 1 <= p /\ p <= point2 + 1 THEN keep[p] ELSE -1]

\* a child that takes the other positions from the second parent in place
position_child(keep, fill, point1, point2) ==
    [p \in 1..Len(keep) |-> IF point1 + 1 <= p /\ p <= point2 + 1 THEN keep[p] ELSE fill[p]]

\* one child of the order crossover: keep's segment, the rest in fill's order
order_child(keep, fill, point1, point2) ==
    fill_child(segment_child(keep, point1, point2), fill, 1, 1)

\* GeneticAlgorithm.crossover with its three draws given: r = random.random(),
\* d1 and d2 the outcomes of the two randint calls
crossover(crossover_rate, parent1, parent2, r, d1, d2) ==
    IF r > crossover_rate THEN Returned(<<parent1, parent2>>)
    ELSE IF IsRaised(d1) THEN d1
    ELSE IF IsRaised(d2) THEN d2
    ELSE LET point1 == IF d1.value > d2.value THEN d2.value ELSE d1.value
             point2 == IF d1.value > d2.value THEN d1.value ELSE d2.value
         IN  Returned(<<order_child(parent1, parent2, point1, point2),
                        order_child(parent2, parent1, point1, point2)>>)

\* mutated[idx1], mutated[idx2] = mutated[idx2], mutated[idx1]
swap(individual, idx1, idx2) ==
    [individual EXCEPT ![idx1 + 1] = individual[idx2 + 1],
                       ![idx2 + 1] = individual[idx1 + 1]]

\* GeneticAlgorithm.mutate with its draws given: r = random.random(), s the
\* outcome of random.sample
mutate(mutation_rate, individual, r, s) ==
    IF r > mutation_rate THEN Returned(individual)
    ELSE IF IsRaised(s) THEN s
    ELSE Returned(swap(individual, s.value[1], s.value[2]))

-----------------------------------------------------------------------------
(* simulated_annealing.py: the move *)

\* SimulatedAnnealing.get_neighbor with the outcome s of random.sample given
get_neighbor(route, s) ==
    IF IsRaised(s) THEN s ELSE Returned(swap(route, s.value[1], s.value[2]))

-----------------------------------------------------------------------------
(* genetic_algorithm.py: one generation.  Each operator that draws at      *)
(* random is given as the set of outcomes its draws allow.                 *)

\* GeneticAlgorithm.__init__
GeneticAlgorithm(locs, constraint_checker, population_size, generations, mutation_rate, crossover_rate, elite_size) ==
    [constraint_checker |-> constraint_checker, population_size |-> population_size,
     generations |-> generations, mutation_rate |-> mutation_rate,
     crossover_rate |-> crossover_rate, elite_size |-> elite_size,
     num_locations |-> Len(locs)]

\* GeneticAlgorithm.create_population: population_size shuffles of range(n)
create_population(self) ==
    [1..self.population_size -> Permutations0(self.num_locations)]

\* GeneticAlgorithm.fitness
fitness(self, route) == evaluate_route(self.constraint_checker, route).fitness

\* sorted() is stable: a pair goes behind every pair whose key is not greater
sorted_insert(ranked, pair) ==
    LET k == Cardinality({i \in 1..Len(ranked) : ranked[i][1] <= pair[1]})
    IN  SubSeq(ranked, 1, k) \o <<pair>> \o SubSeq(ranked, k + 1, Len(ranked))

RECURSIVE sorted_by_fitness(_, _, _)
sorted_by_fitness(fitness_results, i, ranked) ==
    IF i > Len(fitness_results) THEN ranked
    ELSE sorted_by_fitness(fitness_results, i + 1, sorted_insert(ranked, fitness_results[i]))

\* GeneticAlgorithm.rank_population: <<fitness, individual>> pairs, ascending
rank_population(self, pop) ==
    sorted_by_fitness([i \in 1..Len(pop) |-> <<fitness(self, pop[i]), pop[i]>>], 1, <<>>)

\* GeneticAlgorithm.selection: the weight 1 / (1 + fitness) is 0.0 for an
\* infinite fitness and positive otherwise; a total of 0 divides by zero,
\* and every individual of positive weight can be drawn
selection(ranked) ==
    IF \A i \in 1..Len(ranked) : ranked[i][1] = Inf
    THEN {Raised("ZeroDivisionError")}
    ELSE {Returned(ranked[i][2]) : i \in {j \in 1..Len(ranked) : ranked[j][1] # Inf}}

\* every outcome of crossover(parent1, parent2)
crossover_outcomes(self, parent1, parent2) ==
    {crossover(self.crossover_rate, parent1, parent2, r, d1, d2) :
        r \in RandomDraws,
        d1 \in randint(0, Len(parent1) - 1), d2 \in randint(0, Len(parent1) - 1)}

\* every outcome of mutate(individual)
mutate_outcomes(self, individual) ==
    {mutate(self.mutation_rate, individual, r, smp) :
        r \in RandomDraws, smp \in sample2(Len(individual))}

\* child1 = mutate(child1); child2 = mutate(child2)
mutate_both(self, children) ==
    UNION {IF IsRaised(o1) THEN {Raised(o1.raised)}
           ELSE {IF IsRaised(o2) THEN Raised(o2.raised)
                 ELSE Returned(<<o1.value, o2.value>>) :
                    o2 \in mutate_outcomes(self, children[2])} :
              o1 \in mutate_outcomes(self, children[1])}

\* one pass of the while loop of evolve up to the two mutated children
offspring(self, ranked) ==
    LET parents == selection(ranked)
    IN  IF \E o \in parents : IsRaised(o) THEN {Raised("ZeroDivisionError")}
        ELSE UNION {UNION {IF IsRaised(x) THEN {Raised(x.raised)}
                           ELSE mutate_both(self, x.value) :
                              x \in crossover_outcomes(self, p1.value, p2.value)} :
                       p1 \in parents, p2 \in parents}

\* the second child appended whatever the size reached
second_child_always(self, new_population, child2) == Append(new_population, child2)

\* if len(new_population) < self.population_size: new_population.append(child2)
second_child(self, new_population, child2) ==
    IF Len(new_population) < self.population_size
    THEN Append(new_population, child2) ELSE new_population

\* the while loop of evolve; a second child past population_size is dropped
RECURSIVE evolve_loop(_, _, _)
evolve_loop(self, pairs, new_population) ==
    IF ~(Len(new_population) < self.population_size) THEN {Returned(new_population)}
    ELSE UNION {IF IsRaised(o) THEN {Raised(o.raised)}
                ELSE LET with1 == Append(new_population, o.value[1])
                     IN  evolve_loop(self, pairs, second_child(self, with1, o.value[2])) :
                   o \in pairs}

\* GeneticAlgorithm.evolve: every population one generation can produce
evolve(self, pop) ==
    LET ranked == rank_population(self, pop)
        count == IF self.elite_size < Len(ranked) THEN self.elite_size ELSE Len(ranked)
        elite == [i \in 1..count |-> ranked[i][2]]
    IN  IF ~(Len(elite) < self.population_size) THEN {Returned(elite)}
        ELSE evolve_loop(self, offspring(self, ranked), elite)

\* the incumbent replaced by every generation's best
incumbent_improves_always(current_best_fitness, best_fitness) == TRUE

\* if current_best_fitness < best_fitness
incumbent_improves(current_best_fitness, best_fitness) ==
    current_best_fitness < best_fitness

-----------------------------------------------------------------------------
(* simulated_annealing.py: acceptance and cooling *)

\* SimulatedAnnealing.__init__; temperatures are fractions <<num, den>>
SimulatedAnnealing(locs, constraint_checker, initial_temperature, cooling_rate, min_temperature, iterations_per_temp) ==
    [constraint_checker |-> constraint_checker,
     initial_temperature |-> initial_temperature, cooling_rate |-> cooling_rate,
     min_temperature |-> min_temperature, iterations_per_temp |-> iterations_per_temp,
     num_locations |-> Len(locs)]

\* the loop test as temperature >= min_temperature
FracGreaterOrEqual(a, b) == a[1] * b[2] >= b[1] * a[2]

\* a > b for fractions of positive denominator
FracGreater(a, b) == a[1] * b[2] > b[1] * a[2]

\* temperature *= cooling_rate
cooled(temp, cooling_rate) == <<temp[1] * cooling_rate[1], temp[2] * cooling_rate[2]>>

\* acceptance_probability(...) > random.random(), the values it can take:
\* the probability is 1.0 for a better neighbour and exp(-0 / T) = 1.0 for an
\* equal one, above every draw of [0, 1); for a worse one it is
\* exp(-(new - current) / T) < 1, which a draw can reach or not
accepts(current_fitness, new_fitness, temp) ==
    IF new_fitness < current_fitness THEN {TRUE}
    ELSE IF new_fitness = current_fitness THEN {TRUE}
    ELSE {TRUE, FALSE}

\* the incumbent replaced by every accepted solution
best_improves_always(current_fitness, best_fitness) == TRUE

\* if current_solution.fitness < best_solution.fitness
best_improves(current_fitness, best_fitness) == current_fitness < best_fitness

-----------------------------------------------------------------------------
(* crossover, mutate and get_neighbor on their own: any permutations of    *)
(* 0..n-1 for n up to MaxPermLen, any rates, any draws                     *)

\* one call: the operator, its arguments and the values its draws take
InitOps ==
    /\ \E n \in 0..MaxPermLen :
          \/ \E rate \in Rates, a \in Permutations0(n), b \in Permutations0(n),
                r \in RandomDraws, d1 \in randint(0, n - 1), d2 \in randint(0, n - 1) :
                op_call = Some([op |-> "crossover", rate |-> rate, parent1 |-> a,
                                parent2 |-> b, r |-> r, d1 |-> d1, d2 |-> d2])
          \/ \E rate \in Rates, a \in Permutations0(n), r \in RandomDraws,
                smp \in sample2(n) :
                op_call = Some([op |-> "mutate", rate |-> rate, individual |-> a,
                                r |-> r, s |-> smp])
          \/ \E a \in Permutations0(n), smp \in sample2(n) :
                op_call = Some([op |-> "get_neighbor", route |-> a, s |-> smp])
    /\ op_ret = None
    /\ tw_unused /\ ev_unused /\ run_unused /\ ga_unused /\ sa_unused
    /\ lc_unused /\ hp_unused

Crossover ==
    /\ op_ret = None /\ Get(op_call).op = "crossover"
    /\ LET c == Get(op_call)
       IN  op_ret' = Some(crossover(c.rate, c.parent1, c.parent2, c.r, c.d1, c.d2))
    /\ UNCHANGED <<op_call, lc_vars, hp_vars, tw_vars, ev_vars, run_vars, ga_vars, sa_vars>>

Mutate ==
    /\ op_ret = None /\ Get(op_call).op = "mutate"
    /\ LET c == Get(op_call)
       IN  op_ret' = Some(mutate(c.rate, c.individual, c.r, c.s))
    /\ UNCHANGED <<op_call, lc_vars, hp_vars, tw_vars, ev_vars, run_vars, ga_vars, sa_vars>>

GetNeighbor ==
    /\ op_ret = None /\ Get(op_call).op = "get_neighbor"
    /\ LET c == Get(op_call)
       IN  op_ret' = Some(get_neighbor(c.route, c.s))
    /\ UNCHANGED <<op_call, lc_vars, hp_vars, tw_vars, ev_vars, run_vars, ga_vars, sa_vars>>

NextOps == Crossover \/ Mutate \/ GetNeighbor

SpecOps == InitOps /\ [][NextOps]_vars

\* the positions where two lists of one length differ
DiffPositions(a, b) == {p \in 1..Len(a) : a[p] # b[p]}

\* the list without its positions lo..hi
Outside(seq, lo, hi) == SubSeq(seq, 1, lo - 1) \o SubSeq(seq, hi + 1, Len(seq))

\* the list without the values of the set
Without(seq, values) == SelectSeq(seq, LAMBDA v : v \notin values)

\* what the crossover claim says of one child: a permutation that keeps
\* keep's segment lo..hi in place and holds, in the other positions from
\* left to right, the missing indices in fill's order
IsOrderChild(child, keep, fill, lo, hi) ==
    /\ IsPermutation(child, Len(keep))
    /\ SubSeq(child, lo, hi) = SubSeq(keep, lo, hi)
    /\ Outside(child, lo, hi) = Without(fill, Range(SubSeq(keep, lo, hi)))

\* C7: for any two permutations of 0..n-1 and any two cut points, in either
\* order or equal, both children of crossover hold each index of 0..n-1
\* exactly once, with and without the crossover taking place; when it takes
\* place child 1 keeps parent 1's segment between the cut points in place
\* and fills the other positions left to right with the missing indices in
\* parent 2's order, and child 2 the same with the parents exchanged.
C7_CrossoverPermutation ==
    (op_ret # None /\ Get(op_call).op = "crossover"
        /\ ~IsRaised(Get(op_call).d1) /\ ~IsRaised(Get(op_call).d2))
        => LET c == Get(op_call)
               n == Len(c.parent1)
               lo == (IF c.d1.value <= c.d2.value THEN c.d1.value ELSE c.d2.value) + 1
               hi == (IF c.d1.value <= c.d2.value THEN c.d2.value ELSE c.d1.value) + 1
           IN  /\ ~IsRaised(Get(op_ret))
               /\ IsPermutation(Get(op_ret).value[1], n)
               /\ IsPermutation(Get(op_ret).value[2], n)
               /\ c.r <= c.rate =>
                     /\ IsOrderChild(Get(op_ret).value[1], c.parent1, c.parent2, lo, hi)
                     /\ IsOrderChild(Get(op_ret).value[2], c.parent2, c.parent1, lo, hi)

\* C7 witness: a crossover that took place with equal cut points (a segment
\* of one position) and gave a child that is neither parent.
C7_Witness ==
    /\ op_ret # None /\ Get(op_call).op = "crossover"
    /\ Get(op_call).r <= Get(op_call).rate
    /\ ~IsRaised(Get(op_call).d1) /\ ~IsRaised(Get(op_call).d2)
    /\ Get(op_call).d1.value = Get(op_call).d2.value
    /\ ~IsRaised(Get(op_ret))
    /\ Get(op_ret).value[1] # Get(op_call).parent1
    /\ Get(op_ret).value[1] # Get(op_call).parent2

\* C8: for every permutation of 0..n-1, mutate (whether or not the mutation
\* fires) and get_neighbor return a permutation of the same indices; when
\* the swap is applied the output differs from the input in exactly two
\* positions, whose values are exchanged.
C8_SwapPermutation ==
    (op_ret # None /\ Get(op_call).op \in {"mutate", "get_neighbor"})
        => LET c == Get(op_call)
               input == IF c.op = "mutate" THEN c.individual ELSE c.route
               fires == c.op = "get_neighbor" \/ c.r <= c.rate
           IN  /\ ~IsRaised(Get(op_ret))
               /\ IsPermutation(Get(op_ret).value, Len(input))
               /\ fires =>
                     \E p, q \in 1..Len(input) :
                         /\ p # q
                         /\ DiffPositions(input, Get(op_ret).value) = {p, q}
                         /\ Get(op_ret).value[p] = input[q]
                         /\ Get(op_ret).value[q] = input[p]

-----------------------------------------------------------------------------
(* The route lists as objects.  A Python list is held by reference: heap   *)
(* maps a list's identity 1..Len(heap) to its contents now, origin to its  *)
(* contents when the operation that made it returned.  The two searches    *)
(* touch route lists only through the operations below, each on lists that *)
(* exist already, so any sequence of them covers what a search can do.     *)

\* most route lists alive at once
MaxObjects == 3
\* longest route list held as an object
MaxRefLen == 2

\* a route used in place, where the source copies it
list_alias(h, ref) == [heap |-> h, ref |-> ref]

\* route.copy(): a new list with the contents of the old one
list_copy(h, ref) == [heap |-> Append(h, h[ref]), ref |-> Len(h) + 1]

\* a list built by the operation itself: list(range(n)), [-1] * n, []
list_new(h, contents) == [heap |-> Append(h, contents), ref |-> Len(h) + 1]

\* item assignment: the list ref holds these contents from now on
list_store(h, ref, contents) == [h EXCEPT ![ref] = contents]

\* what an operation on the heap yields: the heap after it and its outcome,
\* the references it returned
heap_result(h, outcome) == [heap |-> h, outcome |-> outcome]

\* create_individual: route = list(range(n)); random.shuffle(route)
create_individual_in(h, n, shuffled) ==
    LET made == list_new(h, [i \in 1..n |-> i - 1])
    IN  heap_result(list_store(made.heap, made.ref, shuffled), Returned(<<made.ref>>))

\* selection returns ranked_population[i][1], the list itself
selection_in(h, ref) == heap_result(h, Returned(<<ref>>))

\* evaluate_route reads the list; the solution holds route=route, the list
\* itself, and for an empty route a new empty list
evaluate_route_in(h, ref) ==
    IF h[ref] = <<>>
    THEN LET made == list_new(h, <<>>) IN heap_result(made.heap, Returned(<<made.ref>>))
    ELSE heap_result(h, Returned(<<ref>>))

\* crossover: two copies when it does not take place; otherwise each child
\* is a new list [-1] * n that the operation fills
crossover_in(h, crossover_rate, parent1, parent2, r, d1, d2) ==
    IF r > crossover_rate
    THEN LET c1 == list_copy(h, parent1)
             c2 == list_copy(c1.heap, parent2)
         IN  heap_result(c2.heap, Returned(<<c1.ref, c2.ref>>))
    ELSE LET o == crossover(crossover_rate, h[parent1], h[parent2], r, d1, d2)
         IN  IF IsRaised(o) THEN heap_result(h, o)
             ELSE LET c1 == list_new(h, [i \in 1..Len(h[parent1]) |-> -1])
                      c2 == list_new(c1.heap, [i \in 1..Len(h[parent2]) |-> -1])
                      filled == list_store(list_store(c2.heap, c1.ref, o.value[1]),
                                           c2.ref, o.value[2])
                  IN  heap_result(filled, Returned(<<c1.ref, c2.ref>>))

\* mutate: the list itself when the mutation does not fire; otherwise
\* mutated = individual.copy() and the swap is stored in mutated
mutate_in(h, mutation_rate, individual, r, s) ==
    IF r > mutation_rate THEN heap_result(h, Returned(<<individual>>))
    ELSE IF IsRaised(s) THEN heap_result(h, s)
    ELSE LET mutated == list_copy(h, individual)
         IN  heap_result(list_store(mutated.heap, mutated.ref,
                             swap(mutated.heap[mutated.ref], s.value[1], s.value[2])),
                         Returned(<<mutated.ref>>))

\* get_neighbor: neighbor = route.copy() and the swap is stored in neighbor
get_neighbor_in(h, route, s) ==
    IF IsRaised(s) THEN heap_result(h, s)
    ELSE LET neighbor == list_copy(h, route)
         IN  heap_result(list_store(neighbor.heap, neighbor.ref,
                             swap(neighbor.heap[neighbor.ref], s.value[1], s.value[2])),
                         Returned(<<neighbor.ref>>))

\* best_route = current_route.copy()
copy_best_in(h, current) ==
    LET best == list_copy(h, current) IN heap_result(best.heap, Returned(<<best.ref>>))

\* one route list exists: the initial solution or the first individual
InitRefs ==
    /\ \E n \in 0..MaxRefLen :
          \E p \in Permutations0(n) : heap = <<p>> /\ origin = <<p>>
    /\ hp_last = None
    /\ lc_unused /\ tw_unused /\ ev_unused /\ op_unused /\ run_unused
    /\ ga_unused /\ sa_unused

\* the operation op, called on the lists args, yields res: the heap becomes
\* the one it left, and the lists it made are created with their contents
Yield(op, args, res) ==
    /\ Len(res.heap) <= MaxObjects
    /\ heap' = res.heap
    /\ origin' = origin \o SubSeq(res.heap, Len(origin) + 1, Len(res.heap))
    /\ hp_last' = Some([op |-> op, args |-> args, outcome |-> res.outcome])
    /\ UNCHANGED <<lc_vars, tw_vars, ev_vars, op_vars, run_vars, ga_vars, sa_vars>>

CreateIndividualIn ==
    /\ Len(heap) < MaxObjects
    /\ \E shuffled \in Permutations0(Len(heap[1])) :
          Yield("create_individual", <<>>,
                create_individual_in(heap, Len(heap[1]), shuffled))

SelectionIn ==
    \E ref \in 1..Len(heap) : Yield("selection", <<ref>>, selection_in(heap, ref))

EvaluateRouteIn ==
    \E ref \in 1..Len(heap) : Yield("evaluate_route", <<ref>>, evaluate_route_in(heap, ref))

CrossoverIn ==
    /\ Len(heap) + 2 <= MaxObjects \/ Len(heap[1]) = 0
    /\ \E parent1 \in 1..Len(heap), parent2 \in 1..Len(heap), rate \in SearchRates,
          r \in RandomDraws, d1 \in randint(0, Len(heap[1]) - 1),
          d2 \in randint(0, Len(heap[1]) - 1) :
          Yield("crossover", <<parent1, parent2>>,
                crossover_in(heap, rate, parent1, parent2, r, d1, d2))

MutateIn ==
    \E individual \in 1..Len(heap), rate \in SearchRates, r \in RandomDraws,
       s \in sample2(Len(heap[1])) :
        Yield("mutate", <<individual>>, mutate_in(heap, rate, individual, r, s))

GetNeighborIn ==
    /\ Len(heap) < MaxObjects \/ Len(heap[1]) < 2
    /\ \E route \in 1..Len(heap), s \in sample2(Len(heap[1])) :
          Yield("get_neighbor", <<route>>, get_neighbor_in(heap, route, s))

CopyBestIn ==
    /\ Len(heap) < MaxObjects
    /\ \E current \in 1..Len(heap) :
          Yield("copy", <<current>>, copy_best_in(heap, current))

NextRefs ==
    \/ CreateIndividualIn \/ SelectionIn \/ EvaluateRouteIn \/ CrossoverIn
    \/ MutateIn \/ GetNeighborIn \/ CopyBestIn

SpecRefs == InitRefs /\ [][NextRefs]_vars

\* C13: no operation of a search changes the contents of a route list that
\* existed when it was called, so every route list holds the contents it was
\* created with, whatever operations have run since and whoever else holds
\* it (mutate hands back the very list it was given when it does not fire,
\* and a solution holds the very list that was evaluated).
C13_CopyOnModify ==
    /\ [](\A ref \in 1..Len(heap) : heap[ref] = origin[ref])
    /\ [][\A ref \in 1..Len(heap) : heap'[ref] = heap[ref]]_vars

\* C13 witness: get_neighbor returned a new list that differs from the route
\* it was given, a route that a mutate which did not fire or an evaluation
\* may have handed on, and the route given still holds what it was created
\* with.
C13_Witness ==
    /\ hp_last # None
    /\ Get(hp_last).op = "get_neighbor"
    /\ ~IsRaised(Get(hp_last).outcome)
    /\ LET given == Get(hp_last).args[1]
           made == Get(hp_last).outcome.value[1]
       IN  /\ made # given
           /\ heap[made] # heap[given]
           /\ heap[given] = origin[given]
           /\ Len(heap) = MaxObjects

-----------------------------------------------------------------------------
(* RouteOptimizer: constructed over the first n locations of the fixture,  *)
(* then asked once for one of the two searches                             *)

\* initial_temperature is 1..MaxTemp; cooling_rate in (0, 1); min_temperature > 0
CoolingRates == {<<1, 2>>, <<3, 4>>}
MinTemperatures == {<<1, 1>>, <<2, 1>>}

Init ==
    /\ locations \in {SubSeq(AllLocations, 1, n) : n \in 0..Len(AllLocations)}
    /\ pc = "idle" /\ result = None /\ exception = ""
    /\ ga_unused /\ sa_unused
    /\ tw_unused /\ ev_unused /\ op_unused /\ lc_unused /\ hp_unused

\* an exception leaves the search
Raise(name) == pc' = "raised" /\ exception' = name /\ result' = None

\* RouteOptimizer.optimize_genetic and GeneticAlgorithm.optimize up to its loop
OptimizeGenetic ==
    /\ pc = "idle"
    /\ \E population_size \in 0..MaxPop, generations \in 0..MaxGen,
          mutation_rate \in SearchRates, crossover_rate \in SearchRates,
          elite_size \in 0..MaxPop :
          LET self == GeneticAlgorithm(locations, Checker(locations), population_size,
                          generations, mutation_rate, crossover_rate, elite_size)
          IN  /\ ga' = Some(self)
              /\ \E pop \in create_population(self) :
                    /\ population' = pop
                    /\ ga_initial_best' =
                          Min({Inf} \cup {fitness(self, pop[i]) : i \in 1..Len(pop)})
    /\ generation' = 0
    /\ ga_best_fitness' = Inf
    /\ ga_best_solution' = None
    /\ ga_min_seen' = Inf
    /\ pc' = "genetic"
    /\ UNCHANGED <<locations, result, exception, sa_vars, lc_vars, hp_vars, tw_vars, ev_vars, op_vars>>

\* one pass of the for loop of GeneticAlgorithm.optimize: evolve, rank, update
\* the incumbent.  ga_min_seen records the least of the generations' bests,
\* ga_initial_best the least fitness of the initial population.
Generation ==
    /\ pc = "genetic"
    /\ generation < Get(ga).generations
    /\ \E o \in evolve(Get(ga), population) :
          IF IsRaised(o)
          THEN Raise(o.raised) /\ UNCHANGED <<locations, ga_vars>>
          ELSE IF o.value = <<>>
          THEN Raise("IndexError") /\ UNCHANGED <<locations, ga_vars>>
          ELSE \E ranked \in {rank_population(Get(ga), o.value)} :
               LET current_best_fitness == ranked[1][1]
                   current_best_individual == ranked[1][2]
                   improves == incumbent_improves(current_best_fitness, ga_best_fitness)
               IN  /\ population' = o.value
                   /\ ga_best_fitness' =
                         IF improves THEN current_best_fitness ELSE ga_best_fitness
                   /\ ga_best_solution' =
                         IF improves
                         THEN Some(evaluate_route(Get(ga).constraint_checker,
                                                  current_best_individual))
                         ELSE ga_best_solution
                   /\ ga_min_seen' =
                         Min({ga_min_seen} \cup {ranked[i][1] : i \in 1..Len(ranked)})
                   /\ generation' = generation + 1
                   /\ UNCHANGED <<ga, ga_initial_best, locations, pc, result, exception>>
    /\ UNCHANGED <<sa_vars, lc_vars, hp_vars, tw_vars, ev_vars, op_vars>>

\* return best_solution if best_solution else evaluate_route(population[0])
GeneticReturn ==
    /\ pc = "genetic"
    /\ generation = Get(ga).generations
    /\ IF ga_best_solution # None
       THEN pc' = "returned" /\ result' = ga_best_solution /\ exception' = ""
       ELSE IF population = <<>>
       THEN Raise("IndexError")
       ELSE /\ pc' = "returned" /\ exception' = ""
            /\ result' = Some(evaluate_route(Get(ga).constraint_checker, population[1]))
    /\ UNCHANGED <<locations, ga_vars, sa_vars, lc_vars, hp_vars, tw_vars, ev_vars, op_vars>>

\* RouteOptimizer.optimize_simulated_annealing and SimulatedAnnealing.optimize
\* up to its loop
OptimizeAnnealing ==
    /\ pc = "idle"
    /\ \E initial_temperature \in 1..MaxTemp, cooling_rate \in CoolingRates,
          min_temperature \in MinTemperatures, iterations_per_temp \in 0..MaxIter,
          route \in Permutations0(Len(locations)) :
          LET self == SimulatedAnnealing(locations, Checker(locations),
                          <<initial_temperature, 1>>, cooling_rate, min_temperature,
                          iterations_per_temp)
              solution == evaluate_route(self.constraint_checker, route)
          IN  /\ sa' = Some(self)
              /\ current_route' = route
              /\ current_solution' = Some(solution)
              /\ best_route' = route
              /\ best_solution' = Some(solution)
              /\ temperature' = self.initial_temperature
              /\ sa_min_seen' = solution.fitness
    /\ inner' = 0
    /\ iteration' = 0
    /\ evaluations' = 0
    /\ pc' = "annealing"
    /\ UNCHANGED <<locations, result, exception, ga_vars, lc_vars, hp_vars, tw_vars, ev_vars, op_vars>>

\* one pass of the inner for loop: neighbour, acceptance, incumbent.
\* sa_min_seen records the least fitness of the solutions that were current,
\* evaluations the number of neighbours evaluated so far.
Iterate ==
    /\ pc = "annealing"
    /\ FracGreater(temperature, Get(sa).min_temperature)
    /\ inner < Get(sa).iterations_per_temp
    /\ \E smp \in sample2(Len(current_route)) :
          LET o == get_neighbor(current_route, smp)
          IN  IF IsRaised(o)
              THEN Raise(o.raised) /\ UNCHANGED <<locations, sa_vars>>
              ELSE
              \E neighbor_solution \in {evaluate_route(Get(sa).constraint_checker, o.value)} :
              LET neighbor_route == o.value
              IN  \E accepted \in accepts(Get(current_solution).fitness,
                                          neighbor_solution.fitness, temperature) :
                    LET new_route == IF accepted THEN neighbor_route ELSE current_route
                        new_solution == IF accepted THEN neighbor_solution
                                        ELSE Get(current_solution)
                        improves == best_improves(new_solution.fitness,
                                                  Get(best_solution).fitness)
                    IN  /\ current_route' = new_route
                        /\ current_solution' = Some(new_solution)
                        /\ best_route' = IF improves THEN new_route ELSE best_route
                        /\ best_solution' = IF improves THEN Some(new_solution)
                                            ELSE best_solution
                        /\ sa_min_seen' = Min({sa_min_seen, new_solution.fitness})
                        /\ inner' = inner + 1
                        /\ evaluations' = evaluations + 1
                        /\ UNCHANGED <<sa, temperature, iteration, locations, pc,
                                       result, exception>>
    /\ UNCHANGED <<ga_vars, lc_vars, hp_vars, tw_vars, ev_vars, op_vars>>

\* the end of a temperature level: temperature *= cooling_rate; iteration += 1
Cool ==
    /\ pc = "annealing"
    /\ FracGreater(temperature, Get(sa).min_temperature)
    /\ inner = Get(sa).iterations_per_temp
    /\ temperature' = cooled(temperature, Get(sa).cooling_rate)
    /\ iteration' = iteration + 1
    /\ inner' = 0
    /\ UNCHANGED <<sa, current_route, current_solution, best_route, best_solution,
                   sa_min_seen, evaluations, run_vars, ga_vars, lc_vars, hp_vars,
                   tw_vars, ev_vars, op_vars>>

\* the while loop ends when temperature <= min_temperature: return best_solution
AnnealingReturn ==
    /\ pc = "annealing"
    /\ ~FracGreater(temperature, Get(sa).min_temperature)
    /\ pc' = "returned"
    /\ result' = best_solution
    /\ exception' = ""
    /\ UNCHANGED <<locations, sa_vars, ga_vars, lc_vars, hp_vars, tw_vars, ev_vars, op_vars>>

Next ==
    \/ OptimizeGenetic \/ Generation \/ GeneticReturn
    \/ OptimizeAnnealing \/ Iterate \/ Cool \/ AnnealingReturn

Spec == Init /\ [][Next]_vars

\* the annealing search alone
NextAnnealing == OptimizeAnnealing \/ Iterate \/ Cool \/ AnnealingReturn

\* a step of the running search: a pass of the for loop, the end of a
\* temperature level, or the return
AnnealingStep == Cool \/ AnnealingReturn \/ Iterate

\* the search is one sequential call: while it runs, its next step is taken
SpecAnnealing == Init /\ [][NextAnnealing]_vars /\ WF_vars(AnnealingStep)

\* the search that ran
ran_genetic == ga # None
ran_annealing == sa # None

\* the least fitness in the population now held by the genetic search
population_best == Min({fitness(Get(ga), population[i]) : i \in 1..Len(population)})

\* C5: with G >= 1 generations the genetic search returns the best solution
\* seen over all generations: the returned fitness is the least, over the
\* generations 1..G, of the best fitness in the population that generation
\* produced, and the incumbent's fitness never increases from one generation
\* to the next.
C5_GeneticBestEver ==
    /\ [](ran_genetic /\ generation >= 1 /\ pc # "raised"
            => /\ ga_best_fitness = ga_min_seen
               /\ ga_best_solution # None
                     => Get(ga_best_solution).fitness = ga_min_seen)
    /\ [](ran_genetic /\ pc = "returned" /\ Get(ga).generations >= 1
            => Get(result).fitness = ga_min_seen)
    /\ [][ga_best_fitness' <= ga_best_fitness]_vars

\* C14: the initial population and the population after every call of
\* evolve hold exactly population_size individuals, each a permutation of
\* 0..n-1, for every elite count: none, fewer than the population, with an
\* odd number of places left (the second child of the last pair is then
\* dropped), and as many as the population or more.
C14_PopulationInvariant ==
    ran_genetic =>
        /\ Len(population) = Get(ga).population_size
        /\ \A i \in 1..Len(population) :
              IsPermutation(population[i], Get(ga).num_locations)

\* C14 witness: a generation has run with an odd number of places beside the
\* elite, on routes long enough to cross over and mutate.
C14_Witness ==
    /\ ran_genetic /\ pc = "genetic"
    /\ generation >= 1
    /\ Get(ga).elite_size >= 1
    /\ (Get(ga).population_size - Get(ga).elite_size) % 2 = 1
    /\ Get(ga).num_locations >= 2
    /\ Len(population) = Get(ga).population_size

\* C5 witness: a returned search of two generations or more whose final
\* population holds nothing as good as the solution returned.
C5_Witness ==
    /\ ran_genetic /\ pc = "returned"
    /\ Get(ga).generations >= 2
    /\ population # <<>>
    /\ population_best > Get(result).fitness

\* C6: in the annealing search the best-ever fitness never increases, after
\* every inner iteration it is the least fitness over the solutions that
\* have been current (the initial one and every accepted neighbour), and the
\* solution returned is that incumbent.
C6_AnnealingIncumbent ==
    /\ [](ran_annealing => Get(best_solution).fitness = sa_min_seen)
    /\ [](ran_annealing /\ pc = "returned" => result = best_solution)
    /\ [][ran_annealing /\ sa' # None
            => Get(best_solution').fitness <= Get(best_solution).fitness]_vars

\* C6 witness: a returned search that cooled twice or more and ended on a
\* current solution worse than the incumbent it returned.
C6_Witness ==
    /\ ran_annealing /\ pc = "returned"
    /\ iteration >= 2
    /\ Get(current_solution).fitness > Get(result).fitness
    /\ best_route # current_route

RECURSIVE Pow(_, _)
Pow(b, e) == IF e = 0 THEN 1 ELSE b * Pow(b, e - 1)

\* T0 * r^s as a fraction, for the search that ran
TemperatureAfter(s) ==
    <<Get(sa).initial_temperature[1] * Pow(Get(sa).cooling_rate[1], s),
      Get(sa).initial_temperature[2] * Pow(Get(sa).cooling_rate[2], s)>>

\* T0 * r^s <= Tmin
AtOrBelowMin(s) ==
    TemperatureAfter(s)[1] * Get(sa).min_temperature[2]
        <= Get(sa).min_temperature[1] * TemperatureAfter(s)[2]

\* s is the smallest s >= 0 with T0 * r^s <= Tmin (r < 1: the temperatures
\* fall, so it is the only s at or below Tmin whose predecessor is above)
IsStepCount(s) == AtOrBelowMin(s) /\ (s > 0 => ~AtOrBelowMin(s - 1))

\* C15: for T0 > 0, 0 < r < 1, Tmin > 0 and at least 2 locations the
\* annealing search always returns; it has then cooled exactly s times, s the
\* smallest s >= 0 with T0 * r^s <= Tmin, and evaluated exactly s * K
\* neighbours, K at every temperature; when T0 <= Tmin it cools and
\* evaluates nothing and returns the initial solution.
C15_AnnealingBudget ==
    /\ [](ran_annealing /\ pc = "returned"
            => /\ IsStepCount(iteration)
               /\ evaluations = iteration * Get(sa).iterations_per_temp
               /\ AtOrBelowMin(0)
                     => /\ iteration = 0 /\ evaluations = 0
                        /\ result = Some(evaluate_route(Get(sa).constraint_checker,
                                                        current_route))
                        /\ best_route = current_route)
    /\ [](ran_annealing /\ Len(locations) >= 2 => pc # "raised")
    /\ [][ran_annealing /\ iteration' = iteration + 1
            => /\ inner = Get(sa).iterations_per_temp
               /\ evaluations = iteration' * Get(sa).iterations_per_temp
               /\ ~AtOrBelowMin(iteration)]_vars
    /\ (ran_annealing /\ Len(locations) >= 2) ~> (pc = "returned")

\* C15 witness: a returned search that evaluated neighbours and stopped with
\* the temperature exactly at Tmin after cooling.
C15_Witness ==
    /\ ran_annealing /\ pc = "returned"
    /\ iteration >= 1 /\ evaluations >= 1
    /\ Len(locations) >= 2
    /\ temperature[1] * Get(sa).min_temperature[2]
          = Get(sa).min_temperature[1] * temperature[2]

\* C16: the solution the genetic search returns is never worse than the
\* best individual of the initial population, for every number of
\* generations (none included) and every elite count (none included).
C16_NeverWorseThanInitial ==
    (ran_genetic /\ pc = "returned") => Get(result).fitness <= ga_initial_best

\* C9: once constructed over any number of locations, a search asked for
\* with a population of at least one runs to completion: nothing is raised
\* after the search has begun.
C9_NoPartialFailure ==
    ~(pc = "raised" /\ (ran_genetic => Get(ga).population_size >= 1))

====
